---- MODULE Spec2Model ----
(***************************************************************************)
(* A model of the ClipEditor component of src/components/Video.tsx: the    *)
(* clip record store (draft, ordered clip collection, title lookups in     *)
(* flight), the reorderable list's drop handler, the sequential playback   *)
(* scheduler with its single-shot timers, the bridge to the embedded       *)
(* player (script injection, player instances and their readiness), the    *)
(* zoom control and the view window of the marker track.                   *)
(*                                                                         *)
(* React state is modelled at the granularity of event handlers: every     *)
(* handler runs to completion and the component re-renders before the      *)
(* next event, so a handler invoked by an event reads the state of the     *)
(* latest render.  What a handler captured in a closure (the clips array   *)
(* captured by playNext, the draft captured by confirmClip across its      *)
(* await) is kept as captured, because the arrays and records of React     *)
(* state are never mutated in place.                                       *)
(*                                                                         *)
(* Strings the code trims are sequences of one-character strings.          *)
(* Times are whole seconds.  A nullable number (a timer handle, a player   *)
(* instance, a drop target id) is 0 when null: all of them are positive    *)
(* when present.  The nullable draft is a set with at most one element.    *)
(***************************************************************************)
EXTENDS Integers, Sequences, FiniteSets, TLC

\* ------------------------------------------------------------------ bounds
\* Clips in the collection plus title lookups in flight.
MaxClips == 2
\* Number of playback timers armed over a run of the model.
MaxHandle == 2
\* Number of edits of the draft and of the collection (marker drags, deletions,
\* drops of the reorderable list) over a run of the model.
MaxEdits == 1
\* Number of player instances constructed by one mounted component.
MaxPlayers == 2
\* Number of bootstrap script tags the page may come to hold.
MaxScripts == 2

\* ------------------------------------------------------------------ inputs
\* What the user may type in the video identifier field.
VideoInputs == { <<>>, <<" ", " ">>, <<" ", "a", " ">> }
\* The value a marker drag may produce: it differs from the four defaults of
\* a new draft and lies beyond the default audio markers.
TimeVals == {9}
Fields == {"start", "audioStart", "audioEnd", "end"}
\* What the title lookup may answer: a JSON body with a title, one with an
\* empty title, one without a title field, or a network/parse failure.
Responses ==
    { [ok |-> TRUE,  hasTitle |-> TRUE,  title |-> "Demo"],
      [ok |-> TRUE,  hasTitle |-> TRUE,  title |-> ""],
      [ok |-> TRUE,  hasTitle |-> FALSE, title |-> ""],
      [ok |-> FALSE, hasTitle |-> FALSE, title |-> ""] }
\* The readings Date.now() may return, which become clip ids.  Date.now() is
\* the wall clock in milliseconds: two readings may be equal, and an adjusted
\* clock may read less than it did before.
Ids == 1..MaxClips

VARIABLES
    clips,                \* useState<Clip[]>: the ordered collection
    videoId,              \* useState<string>: the identifier field
    draftClip,            \* useState<Clip | null>: {} or {draft}
    playerRef,            \* useRef: 0 (null) or the number of a player instance
    timelineTimeoutRef,   \* useRef<number | null>: 0 (null) or a timer handle
    isTimelinePlaying,    \* useState(false)
    timers,               \* the browser's pending setTimeout callbacks
    nextHandle,           \* the handle the next window.setTimeout returns
    pending,              \* confirmClip calls suspended at their await
    mounted,              \* the component is mounted
    scripts,              \* bootstrap script tags injected into the page
    windowYT,             \* window.YT is defined (the script has loaded)
    YT,                   \* useState(null): the factory is known (truthy)
    constructed,          \* the videoId each new YT.Player was constructed for
    unready,              \* constructed instances whose onReady is still to come
    videoDuration,        \* useState(60), in seconds
    timelineZoom,         \* useState(1), in hundredths
    edits,                \* edits made so far (bounds the model)
    calls,                \* commands the player received from the last handler
    played,               \* load/play/arm cycles of the run started by the last Play
    ev                    \* the handler that ran last, with its arguments

vars == << clips, videoId, draftClip, playerRef, timelineTimeoutRef,
           isTimelinePlaying, timers, nextHandle, pending, mounted, scripts,
           windowYT, YT, constructed, unready, videoDuration, timelineZoom,
           edits, calls, played, ev >>

\* ------------------------------------------------------------------ strings
RECURSIVE trimStart(_)
trimStart(s) == IF s # <<>> /\ Head(s) = " " THEN trimStart(Tail(s)) ELSE s

RECURSIVE trimEnd(_)
trimEnd(s) ==
    IF s # <<>> /\ s[Len(s)] = " " THEN trimEnd(SubSeq(s, 1, Len(s) - 1)) ELSE s

\* trim as a function that returns its argument.
trim_Identity(s) == s

\* String.prototype.trim
trim(s) == trimEnd(trimStart(s))

\* A string is truthy when it is not empty.
Truthy(s) == Len(s) > 0

\* ------------------------------------------------------------------ player
\* loadVideoById called without the existence check on playerRef.current.
LoadById_Unguarded(s, id) ==
    Append(s, [cmd |-> "loadVideoById", form |-> "id",
               videoId |-> id, startSeconds |-> 0])

\* playerRef.current?.loadVideoById?.(cleanId): the string form of the call.
\* Nothing is delivered while no instance has been captured.
LoadById(s, id) ==
    IF playerRef # 0
    THEN Append(s, [cmd |-> "loadVideoById", form |-> "id",
                    videoId |-> id, startSeconds |-> 0])
    ELSE s

\* playerRef.current?.loadVideoById?.({videoId, startSeconds}): the object form,
\* used by the playback scheduler only.
LoadAt(s, id, startSeconds) ==
    IF playerRef # 0
    THEN Append(s, [cmd |-> "loadVideoById", form |-> "object",
                    videoId |-> id, startSeconds |-> startSeconds])
    ELSE s

PlayVideo(s) ==
    IF playerRef # 0
    THEN Append(s, [cmd |-> "playVideo", form |-> "none",
                    videoId |-> <<>>, startSeconds |-> 0])
    ELSE s

PauseVideo(s) ==
    IF playerRef # 0
    THEN Append(s, [cmd |-> "pauseVideo", form |-> "none",
                    videoId |-> <<>>, startSeconds |-> 0])
    ELSE s

\* ------------------------------------------------------------------ scheduler
\* The part of the state the scheduler's functions read and write, as a
\* record threaded through them in the order the code runs them.
Sched ==
    [ timers |-> timers, ref |-> timelineTimeoutRef, playing |-> isTimelinePlaying,
      calls |-> <<>>, played |-> played, nextHandle |-> nextHandle ]

\* clearTimeout(handle): cancels the timer with that handle if it is pending.
clearTimeout(ts, handle) == { t \in ts : t.handle # handle }

\* stopTimelinePlayback forgetting the clearTimeout.
stopTimelinePlayback_NoClear(s) ==
    LET s1 == IF s.ref # 0 THEN [s EXCEPT !.ref = 0] ELSE s
        s2 == [s1 EXCEPT !.calls = PauseVideo(@)]
    IN  [s2 EXCEPT !.playing = FALSE]

\* stopTimelinePlayback forgetting the pauseVideo.
stopTimelinePlayback_NoPause(s) ==
    LET s1 == IF s.ref # 0
              THEN [s EXCEPT !.timers = clearTimeout(@, s.ref), !.ref = 0]
              ELSE s
    IN  [s1 EXCEPT !.playing = FALSE]

stopTimelinePlayback(s) ==
    LET s1 == IF s.ref # 0
              THEN [s EXCEPT !.timers = clearTimeout(@, s.ref), !.ref = 0]
              ELSE s
        s2 == [s1 EXCEPT !.calls = PauseVideo(@)]
    IN  [s2 EXCEPT !.playing = FALSE]

\* The closure playNext of one playTimeline call: `snap` is the clips array of
\* the render the call was made from, `index` the closure's cursor.
playNext(s, snap, index) ==
    IF index >= Len(snap)
    THEN [s EXCEPT !.playing = FALSE]
    ELSE LET clip == snap[index + 1]
             timer == [ handle |-> s.nextHandle, snap |-> snap, index |-> index,
                        delay |-> (clip.end - clip.start) * 1000 ]
         IN  [s EXCEPT
                !.calls = PlayVideo(LoadAt(@, clip.videoId, clip.start)),
                !.played = Append(@, [ id |-> clip.id, videoId |-> clip.videoId,
                                       startSeconds |-> clip.start,
                                       delay |-> timer.delay,
                                       delivered |-> playerRef # 0 ]),
                !.timers = @ \cup {timer},
                !.ref = s.nextHandle,
                !.nextHandle = @ + 1]

\* playTimeline without its call of stopTimelinePlayback.
playTimeline_NoStop(s, snap) ==
    playNext([s EXCEPT !.playing = TRUE, !.played = <<>>], snap, 0)

\* The body of playTimeline after its emptiness check.
playTimeline(s, snap) ==
    LET s1 == [s EXCEPT !.playing = TRUE, !.played = <<>>]
    IN  playNext(stopTimelinePlayback(s1), snap, 0)

\* The timeout callback without index += 1.
timeoutCallback_NoIncrement(s, t) ==
    playNext([s EXCEPT !.timers = @ \ {t}], t.snap, t.index)

\* The timeout callback: index += 1; playNext().
timeoutCallback(s, t) ==
    playNext([s EXCEPT !.timers = @ \ {t}], t.snap, t.index + 1)

SetSched(s) ==
    /\ timers' = s.timers
    /\ timelineTimeoutRef' = s.ref
    /\ isTimelinePlaying' = s.playing
    /\ calls' = s.calls
    /\ played' = s.played
    /\ nextHandle' = s.nextHandle

\* ------------------------------------------------------------------ clip store
\* Array.prototype.findIndex with (c) => c.id === id: the 0-based index of the
\* first match, -1 when there is none (id 0 stands for undefined).
findIndex(cs, id) ==
    IF \E i \in 1..Len(cs) : cs[i].id = id
    THEN (CHOOSE i \in 1..Len(cs) :
            cs[i].id = id /\ \A j \in 1..(i - 1) : cs[j].id # id) - 1
    ELSE -1

\* The start index Array.prototype.splice works with, for an array of length n.
spliceStart(n, start) ==
    IF start < 0 THEN (IF n + start < 0 THEN 0 ELSE n + start)
    ELSE IF start > n THEN n ELSE start

\* arrayMove writing the item at its new place without taking it out.
arrayMove_Overwrite(array, from, to) ==
    IF from >= 0 /\ to >= 0
    THEN [array EXCEPT ![to + 1] = array[from + 1]]
    ELSE array

\* arrayMove of @dnd-kit/sortable:
\*   newArray.splice(to < 0 ? newArray.length + to : to, 0, newArray.splice(from, 1)[0])
\* The first argument is evaluated before the inner splice removes the item.
arrayMove(array, from, to) ==
    LET n == Len(array)
        target == IF to < 0 THEN n + to ELSE to
        rs == spliceStart(n, from)
        removed == SubSeq(array, rs + 1, rs + 1)
        rest == SubSeq(array, 1, rs) \o SubSeq(array, rs + 2, n)
        ins == spliceStart(Len(rest), target)
    IN  SubSeq(rest, 1, ins) \o removed \o SubSeq(rest, ins + 1, Len(rest))

\* handleDragEnd writing the dragged item at its new place without taking
\* it out of its old one.
handleDragEnd_Overwrite(cs, active, over) ==
    IF active # over
    THEN arrayMove_Overwrite(cs, findIndex(cs, active), findIndex(cs, over))
    ELSE cs

\* The collection handleDragEnd leaves for the drop of `active` on `over`:
\* the indices are looked up in the rendered clips, which are the clips the
\* state update receives.
handleDragEnd(cs, active, over) ==
    IF active # over
    THEN arrayMove(cs, findIndex(cs, active), findIndex(cs, over))
    ELSE cs

\* prev.map((clip) => clip.id === clipId ? { ...clip, [field]: value } : clip)
updateClip(prev, clipId, field, value) ==
    [ i \in 1..Len(prev) |->
        IF prev[i].id = clipId THEN [prev[i] EXCEPT ![field] = value] ELSE prev[i] ]

\* deleteClip written with findIndex and splice: splice(-1, 1) takes the last
\* clip out when the id is absent.
deleteClip_Splice(prev, clipId) ==
    LET n == Len(prev)
        rs == spliceStart(n, findIndex(prev, clipId))
    IN  SubSeq(prev, 1, rs) \o SubSeq(prev, rs + 2, n)

\* prev.filter((clip) => clip.id !== clipId)
deleteClip(prev, clipId) == SelectSeq(prev, LAMBDA c : c.id # clipId)

\* confirmClip taking whatever title field the answer has.
lookupTitle_NoFallback(r) == r.title

\* The title confirmClip ends with for a lookup answer: "Untitled Video" unless
\* the fetch and the JSON parse succeed and data.title is truthy.
lookupTitle(r) ==
    IF r.ok /\ r.hasTitle /\ r.title # "" THEN r.title ELSE "Untitled Video"

\* { ...draftClip, title }
withTitle(d, title) ==
    [ id |-> d.id, videoId |-> d.videoId, title |-> title, start |-> d.start,
      audioStart |-> d.audioStart, audioEnd |-> d.audioEnd, end |-> d.end ]

\* The draft startDraft creates.
newDraft(id, cleanId) ==
    [ id |-> id, videoId |-> cleanId, start |-> 0, audioStart |-> 2,
      audioEnd |-> 8, end |-> 10 ]

\* confirmClip resumed with the draft at hand instead of the one it captured.
resumeConfirm_CurrentDraft(p, r) ==
    withTitle(IF draftClip # {} THEN CHOOSE d \in draftClip : TRUE ELSE p.draft,
              lookupTitle(r))

\* The clip the suspended call p appends when its lookup settles with answer
\* r: { ...draftClip, title }, draftClip being the draft the call captured.
resumeConfirm(p, r) == withTitle(p.draft, lookupTitle(r))

\* A request number no suspended confirmClip call uses.
freshReq == CHOOSE r \in 1..(Cardinality(pending) + 1) : \A p \in pending : p.req # r

\* ------------------------------------------------------------------ player bridge
\* The script injection effect, run once per mount: a script tag is inserted
\* unless window.YT is defined.  n is the number of tags in the page.
injectScript(n, wyt) == IF ~wyt THEN n + 1 ELSE n

\* player.getDuration() in onReady, for an instance constructed for videoId v,
\* in seconds: each video has its own duration, and an identifier that names
\* no video has none (0).
getDuration(v) == IF \A i \in 1..Len(v) : v[i] = " " THEN 0 ELSE 6 + Len(v)

\* The player construction effect skipping its test of YT and videoId.
newPlayers_Unconditional(yt, v, cs) == Append(cs, v)

\* The player construction effect, run after a render in which YT or videoId
\* changed: if (YT && videoId) new YT.Player("player", { videoId, ... }).
\* cs lists the videoId of every instance constructed so far.
newPlayers(yt, v, cs) == IF yt /\ Truthy(v) THEN Append(cs, v) ELSE cs

\* The effect as a step of the handler that changed YT or videoId.
PlayerEffect(yt, v) ==
    /\ Len(newPlayers(yt, v, constructed)) <= MaxPlayers
    /\ constructed' = newPlayers(yt, v, constructed)
    /\ unready' = unready \cup ((1..Len(constructed')) \ (1..Len(constructed)))

\* The unmount cleanup without its clearTimeout.
unmountCleanup_NoClear(s) == s

\* The cleanup of the mount effect:
\*   if (timelineTimeoutRef.current) clearTimeout(timelineTimeoutRef.current)
unmountCleanup(s) ==
    IF s.ref # 0 THEN [s EXCEPT !.timers = clearTimeout(@, s.ref)] ELSE s

\* ------------------------------------------------------------------ zoom and view
MathMax(a, b) == IF a >= b THEN a ELSE b
MathMin(a, b) == IF a <= b THEN a ELSE b

\* parseFloat(x.toFixed(1)) on hundredths: the nearest tenth.
toFixed1(x) == ((x + 5) \div 10) * 10

\* The "-" button without Math.max.
zoomOut_NoFloor(z) == toFixed1(z - 50)

\* (z) => Math.max(0.5, parseFloat((z - 0.5).toFixed(1)))
zoomOut(z) == MathMax(50, toFixed1(z - 50))

\* (z) => Math.min(5, parseFloat((z + 0.5).toFixed(1)))
zoomIn(z) == MathMin(500, toFixed1(z + 50))

\* The view window is computed in units of 1/Scale second, which makes every
\* division of TimelineSlider exact for a whole number of seconds and a zoom
\* that is a multiple of 0.5 up to 5.
Scale == 2520

\* const viewRange = max / timelineZoom
viewRange(max, zoom) == (max * Scale * 100) \div zoom

\* const center = (clip.start + clip.end) / 2
center(clip) == ((clip.start + clip.end) * Scale) \div 2

\* rangeStart without the Math.max(0, ...).
rangeStart_NoFloor(max, zoom, clip) ==
    MathMin(center(clip) - viewRange(max, zoom) \div 2,
            max * Scale - viewRange(max, zoom))

\* const rangeStart = Math.min(Math.max(0, center - viewRange / 2), max - viewRange)
rangeStart(max, zoom, clip) ==
    MathMin(MathMax(0, center(clip) - viewRange(max, zoom) \div 2),
            max * Scale - viewRange(max, zoom))

\* ------------------------------------------------------------------ initial state
\* The component after its first mount: the mount effects have run, and the
\* page, which had no window.YT, holds the script tag they injected.
Init ==
    /\ clips = <<>>
    /\ videoId = <<>>
    /\ draftClip = {}
    /\ playerRef = 0
    /\ timelineTimeoutRef = 0
    /\ isTimelinePlaying = FALSE
    /\ timers = {}
    /\ nextHandle = 1
    /\ pending = {}
    /\ mounted = TRUE
    /\ scripts = injectScript(0, FALSE)
    /\ windowYT = FALSE
    /\ YT = FALSE
    /\ constructed = <<>>
    /\ unready = {}
    /\ videoDuration = 60
    /\ timelineZoom = 100
    /\ edits = 0
    /\ calls = <<>>
    /\ played = <<>>
    /\ ev = [op |-> "mount"]

SchedUnchanged ==
    UNCHANGED << timelineTimeoutRef, isTimelinePlaying, timers, nextHandle, played >>

PageUnchanged == UNCHANGED << mounted, scripts, windowYT, YT >>

PlayersUnchanged == UNCHANGED << constructed, unready, videoDuration >>

\* ------------------------------------------------------------------ handlers
\* onChange of the identifier field: setVideoId(e.target.value), and the player
\* construction effect of the render that follows.
SetVideoId(v) ==
    /\ mounted
    /\ v # videoId
    /\ videoId' = v
    /\ PlayerEffect(YT, v)
    /\ calls' = <<>>
    /\ ev' = [op |-> "setVideoId"]
    /\ SchedUnchanged
    /\ PageUnchanged
    /\ UNCHANGED << clips, draftClip, playerRef, pending, edits, videoDuration,
                    timelineZoom >>

\* The injected script has loaded: window.YT is defined and
\* window.onYouTubeIframeAPIReady, set by the latest mount that injected a
\* script, calls setYT(window.YT); the player construction effect follows.
\* The setYT of an unmounted component changes nothing.
ApiReady ==
    /\ ~windowYT
    /\ windowYT' = TRUE
    /\ IF mounted
       THEN /\ YT' = TRUE
            /\ PlayerEffect(TRUE, videoId)
       ELSE UNCHANGED << YT, constructed, unready >>
    /\ calls' = <<>>
    /\ ev' = [op |-> "apiReady"]
    /\ SchedUnchanged
    /\ UNCHANGED << clips, videoId, draftClip, playerRef, pending, edits, mounted,
                    scripts, videoDuration, timelineZoom >>

\* onReady of the constructed instance p: the instance handle is captured and
\* the duration of its video, when truthy, becomes videoDuration.
OnReady(p) ==
    /\ mounted
    /\ p \in unready
    /\ unready' = unready \ {p}
    /\ playerRef' = p
    /\ videoDuration' = IF getDuration(constructed[p]) # 0
                        THEN getDuration(constructed[p])
                        ELSE videoDuration
    /\ calls' = <<>>
    /\ ev' = [op |-> "onReady"]
    /\ SchedUnchanged
    /\ PageUnchanged
    /\ UNCHANGED << clips, videoId, draftClip, pending, edits, constructed,
                    timelineZoom >>

\* "Edit Clip".
StartDraft ==
    /\ mounted
    /\ ev' = [op |-> "startDraft", hadDraft |-> draftClip # {}]
    /\ IF ~Truthy(videoId) \/ ~Truthy(trim(videoId))
       THEN /\ calls' = <<>>
            /\ UNCHANGED draftClip
       ELSE \E t \in Ids :
              /\ draftClip' = { newDraft(t, trim(videoId)) }
              /\ calls' = LoadById(<<>>, trim(videoId))
    /\ SchedUnchanged
    /\ PageUnchanged
    /\ PlayersUnchanged
    /\ UNCHANGED << clips, videoId, playerRef, pending, edits, timelineZoom >>

\* A marker of the draft's track is dragged.
UpdateDraftClip(field, value) ==
    /\ mounted
    /\ draftClip # {}
    /\ edits < MaxEdits
    /\ edits' = edits + 1
    /\ draftClip' = { [d EXCEPT ![field] = value] : d \in draftClip }
    /\ calls' = <<>>
    /\ ev' = [op |-> "updateDraftClip", field |-> field, value |-> value]
    /\ SchedUnchanged
    /\ PageUnchanged
    /\ PlayersUnchanged
    /\ UNCHANGED << clips, videoId, playerRef, pending, timelineZoom >>

\* "Add to Timeline", up to the await of the fetch: the call is suspended with
\* the draft of the render it was made from.
ConfirmClip ==
    /\ mounted
    /\ ev' = [op |-> "confirmClip", hadDraft |-> draftClip # {}]
    /\ \/ /\ \E d \in draftClip : Truthy(d.videoId) /\ Truthy(trim(d.videoId))
          /\ Len(clips) + Cardinality(pending) < MaxClips
          /\ pending' = pending \cup
                           { [req |-> freshReq, draft |-> d] : d \in draftClip }
       \/ /\ ~ \E d \in draftClip : Truthy(d.videoId) /\ Truthy(trim(d.videoId))
          /\ pending' = pending
    /\ calls' = <<>>
    /\ SchedUnchanged
    /\ PageUnchanged
    /\ PlayersUnchanged
    /\ UNCHANGED << clips, videoId, draftClip, playerRef, edits, timelineZoom >>

\* The lookup of a suspended confirmClip call settles with answer r, and the
\* call runs to its end.  The state updates of a call that ends after the
\* component was unmounted change nothing.
ResolveLookup(p, r) ==
    /\ mounted
    /\ p \in pending
    /\ pending' = pending \ {p}
    /\ clips' = Append(clips, resumeConfirm(p, r))
    /\ draftClip' = {}
    /\ calls' = <<>>
    /\ ev' = [op |-> "resolve", response |-> r,
              edited |-> \E d \in draftClip : d.id = p.draft.id /\ d # p.draft]
    /\ SchedUnchanged
    /\ PageUnchanged
    /\ PlayersUnchanged
    /\ UNCHANGED << videoId, playerRef, edits, timelineZoom >>

\* A marker of a confirmed clip's track is dragged.
UpdateClip(clipId, field, value) ==
    /\ mounted
    /\ edits < MaxEdits
    /\ edits' = edits + 1
    /\ clips' = updateClip(clips, clipId, field, value)
    /\ calls' = <<>>
    /\ ev' = [op |-> "updateClip", clipId |-> clipId, field |-> field,
              value |-> value]
    /\ SchedUnchanged
    /\ PageUnchanged
    /\ PlayersUnchanged
    /\ UNCHANGED << videoId, draftClip, playerRef, pending, timelineZoom >>

\* "Delete".
DeleteClip(clipId) ==
    /\ mounted
    /\ edits < MaxEdits
    /\ edits' = edits + 1
    /\ clips' = deleteClip(clips, clipId)
    /\ calls' = <<>>
    /\ ev' = [op |-> "deleteClip", clipId |-> clipId]
    /\ SchedUnchanged
    /\ PageUnchanged
    /\ PlayersUnchanged
    /\ UNCHANGED << videoId, draftClip, playerRef, pending, timelineZoom >>

\* "Activate" on the clip at position i: setVideoId(clipVideoId), the load, and
\* the player construction effect when the identifier changed.
LoadClipVideo(i) ==
    /\ mounted
    /\ i \in 1..Len(clips)
    /\ videoId' = clips[i].videoId
    /\ calls' = LoadById(<<>>, clips[i].videoId)
    /\ IF clips[i].videoId # videoId
       THEN PlayerEffect(YT, clips[i].videoId)
       ELSE UNCHANGED << constructed, unready >>
    /\ ev' = [op |-> "loadClipVideo"]
    /\ SchedUnchanged
    /\ PageUnchanged
    /\ UNCHANGED << clips, draftClip, playerRef, pending, edits, videoDuration,
                    timelineZoom >>

\* A drop of the reorderable list: the dragged item is a clip of the list, the
\* drop target another clip, the same clip, or none (over = 0).
HandleDragEnd(active, over) ==
    /\ mounted
    /\ edits < MaxEdits
    /\ edits' = edits + 1
    /\ \E i \in 1..Len(clips) : clips[i].id = active
    /\ over = 0 \/ \E i \in 1..Len(clips) : clips[i].id = over
    /\ clips' = handleDragEnd(clips, active, over)
    /\ calls' = <<>>
    /\ ev' = [op |-> "handleDragEnd", active |-> active, over |-> over]
    /\ SchedUnchanged
    /\ PageUnchanged
    /\ PlayersUnchanged
    /\ UNCHANGED << videoId, draftClip, playerRef, pending, timelineZoom >>

\* "Play Timeline".
PlayTimeline ==
    /\ mounted
    /\ ev' = [op |-> "playTimeline", hadTimer |-> timers # {}]
    /\ IF Len(clips) = 0
       THEN /\ calls' = <<>>
            /\ SchedUnchanged
       ELSE /\ nextHandle <= MaxHandle
            /\ SetSched(playTimeline(Sched, clips))
    /\ PageUnchanged
    /\ PlayersUnchanged
    /\ UNCHANGED << clips, videoId, draftClip, playerRef, pending, edits,
                    timelineZoom >>

\* "Stop".
StopTimelinePlayback ==
    /\ mounted
    /\ ev' = [op |-> "stopTimelinePlayback", hadTimer |-> timers # {}]
    /\ SetSched(stopTimelinePlayback(Sched))
    /\ PageUnchanged
    /\ PlayersUnchanged
    /\ UNCHANGED << clips, videoId, draftClip, playerRef, pending, edits,
                    timelineZoom >>

\* The pending timer t fires: the browser runs its callback whether or not the
\* component is still mounted.
TimerFire(t) ==
    /\ t \in timers
    /\ t.index + 1 < Len(t.snap) => nextHandle <= MaxHandle
    /\ ev' = [op |-> "timeout"]
    /\ SetSched(timeoutCallback(Sched, t))
    /\ PageUnchanged
    /\ PlayersUnchanged
    /\ UNCHANGED << clips, videoId, draftClip, playerRef, pending, edits,
                    timelineZoom >>

\* The "-" button of the zoom control, rendered with a draft or a clip.
ZoomOut ==
    /\ mounted
    /\ draftClip # {} \/ Len(clips) > 0
    /\ timelineZoom' = zoomOut(timelineZoom)
    /\ calls' = <<>>
    /\ ev' = [op |-> "zoomOut", from |-> timelineZoom]
    /\ SchedUnchanged
    /\ PageUnchanged
    /\ PlayersUnchanged
    /\ UNCHANGED << clips, videoId, draftClip, playerRef, pending, edits >>

\* The "+" button of the zoom control.
ZoomIn ==
    /\ mounted
    /\ draftClip # {} \/ Len(clips) > 0
    /\ timelineZoom' = zoomIn(timelineZoom)
    /\ calls' = <<>>
    /\ ev' = [op |-> "zoomIn", from |-> timelineZoom]
    /\ SchedUnchanged
    /\ PageUnchanged
    /\ PlayersUnchanged
    /\ UNCHANGED << clips, videoId, draftClip, playerRef, pending, edits >>

\* The component is unmounted: the cleanup of the mount effect runs.  What is
\* in flight for the component (lookups, instances not yet ready) can no
\* longer change its state.
Unmount ==
    /\ mounted
    /\ mounted' = FALSE
    /\ ev' = [op |-> "unmount", hadTimer |-> timers # {}]
    /\ SetSched(unmountCleanup(Sched))
    /\ UNCHANGED << clips, videoId, draftClip, playerRef, pending, edits, scripts,
                    windowYT, YT, constructed, unready, videoDuration,
                    timelineZoom >>

\* The component is mounted again: its state and refs are those of a new
\* component, the page keeps its script tags and its window.YT, and the mount
\* effects run: the script injection effect, which calls setYT(window.YT)
\* when window.YT is defined, and the player construction effect, which
\* finds an empty videoId.
Mount ==
    /\ ~mounted
    /\ injectScript(scripts, windowYT) <= MaxScripts
    /\ mounted' = TRUE
    /\ scripts' = injectScript(scripts, windowYT)
    /\ YT' = windowYT
    /\ clips' = <<>>
    /\ videoId' = <<>>
    /\ draftClip' = {}
    /\ playerRef' = 0
    /\ timelineTimeoutRef' = 0
    /\ isTimelinePlaying' = FALSE
    /\ pending' = {}
    /\ constructed' = <<>>
    /\ unready' = {}
    /\ videoDuration' = 60
    /\ timelineZoom' = 100
    /\ calls' = <<>>
    /\ played' = <<>>
    /\ ev' = [op |-> "mount"]
    /\ UNCHANGED << windowYT, timers, nextHandle, edits >>

Next ==
    \/ \E v \in VideoInputs : SetVideoId(v)
    \/ ApiReady
    \/ \E p \in unready : OnReady(p)
    \/ StartDraft
    \/ \E f \in Fields, v \in TimeVals : UpdateDraftClip(f, v)
    \/ ConfirmClip
    \/ \E p \in pending, r \in Responses : ResolveLookup(p, r)
    \/ \E id \in Ids, f \in Fields, v \in TimeVals : UpdateClip(id, f, v)
    \/ \E id \in Ids : DeleteClip(id)
    \/ \E i \in 1..Len(clips) : LoadClipVideo(i)
    \/ \E a \in Ids, o \in {0} \cup Ids : HandleDragEnd(a, o)
    \/ PlayTimeline
    \/ StopTimelinePlayback
    \/ \E t \in timers : TimerFire(t)
    \/ ZoomOut
    \/ ZoomIn
    \/ Unmount
    \/ Mount

Spec == Init /\ [][Next]_vars

\* ------------------------------------------------------------------ the clip store
\* The handlers of the clip store read and write no scheduler state (timers,
\* timelineTimeoutRef, isTimelinePlaying), and the scheduler's handlers write
\* no store state: the store is checked on its own, before the player's
\* script has loaded.
NextStore ==
    \/ \E v \in VideoInputs : SetVideoId(v)
    \/ StartDraft
    \/ ConfirmClip
    \/ \E p \in pending, r \in Responses : ResolveLookup(p, r)
    \/ \E id \in Ids : DeleteClip(id)
    \/ \E i \in 1..Len(clips) : LoadClipVideo(i)
    \/ \E a \in Ids, o \in {0} \cup Ids : HandleDragEnd(a, o)

SpecStore == Init /\ [][NextStore]_vars

\* ------------------------------------------------------------------ the scheduler
\* The clip the store holds after "Edit Clip" at clock reading id, "Add to
\* Timeline" and a lookup that returned no title.
confirmed(id) ==
    withTitle(newDraft(id, trim(<<" ", "a", " ">>)),
              lookupTitle([ok |-> FALSE, hasTitle |-> FALSE, title |-> ""]))

\* The collections the scheduler starts from: clips confirmed one after the
\* other at successive clock readings.
StoreClips == { [ i \in 1..n |-> confirmed(i) ] : n \in 0..MaxClips }

\* The scheduler starts from a collection of the store, with no draft and no
\* lookup in flight, the script loaded, the identifier typed and the player
\* constructed for it not yet ready.
InitPlay ==
    /\ clips \in StoreClips
    /\ videoId = <<" ", "a", " ">>
    /\ draftClip = {}
    /\ playerRef = 0
    /\ timelineTimeoutRef = 0
    /\ isTimelinePlaying = FALSE
    /\ timers = {}
    /\ nextHandle = 1
    /\ pending = {}
    /\ mounted = TRUE
    /\ scripts = 1
    /\ windowYT = TRUE
    /\ YT = TRUE
    /\ constructed = newPlayers(TRUE, <<" ", "a", " ">>, <<>>)
    /\ unready = {1}
    /\ videoDuration = 60
    /\ timelineZoom = 100
    /\ edits = 0
    /\ calls = <<>>
    /\ played = <<>>
    /\ ev = [op |-> "mount"]

NextPlay ==
    \/ \E p \in unready : OnReady(p)
    \/ \E id \in Ids, f \in Fields, v \in TimeVals : UpdateClip(id, f, v)
    \/ \E id \in Ids : DeleteClip(id)
    \/ \E i \in 1..Len(clips) : LoadClipVideo(i)
    \/ \E a \in Ids, o \in {0} \cup Ids : HandleDragEnd(a, o)
    \/ PlayTimeline
    \/ StopTimelinePlayback
    \/ \E t \in timers : TimerFire(t)

SpecPlay == InitPlay /\ [][NextPlay]_vars

\* ------------------------------------------------------------------ claims
\* The cycle playNext runs for clip c: what it loads and the timer it arms.
CycleOf(c) ==
    [ id |-> c.id, videoId |-> c.videoId, startSeconds |-> c.start,
      delay |-> (c.end - c.start) * 1000 ]

\* `played` is the cycles of the first k clips of cs, in order, each once.
PlayedIs(cs, k) ==
    /\ Len(played) = k
    /\ k <= Len(cs)
    /\ \A i \in 1..k :
         [ x \in {"id", "videoId", "startSeconds", "delay"} |-> played[i][x] ]
           = CycleOf(cs[i])

\* The commands of the scheduler as the player receives them.
LoadCmd(c) ==
    [ cmd |-> "loadVideoById", form |-> "object", videoId |-> c.videoId,
      startSeconds |-> c.start ]
PlayCmd == [ cmd |-> "playVideo", form |-> "none", videoId |-> <<>>, startSeconds |-> 0 ]
PauseCmd == [ cmd |-> "pauseVideo", form |-> "none", videoId |-> <<>>, startSeconds |-> 0 ]
IfReady(s) == IF playerRef # 0 THEN s ELSE <<>>

\* No command of `s` is a load in the scheduler's (object) form.
NoSchedulerLoad(s) ==
    \A i \in 1..Len(s) : ~(s[i].cmd = "loadVideoById" /\ s[i].form = "object")

\* C1: after Play Timeline on a non-empty collection, with no Stop (the timer
\* reference is set) and no edit, deletion or reorder (edits = 0) since, the
\* player was sent the load of the first clip by the Play handler, each later
\* load by the timeout callback of the clip before it, the cycles run so far
\* are those of the collection's clips in order, each once, and when the last
\* timer has fired every clip was played, nothing more is loaded and the
\* scheduler is idle.
C1_PlaysCollectionInOrder ==
    (edits = 0 /\ played # <<>> /\ timelineTimeoutRef # 0) =>
        /\ \A t \in timers : t.snap = clips /\ PlayedIs(clips, t.index + 1)
        /\ timers = {} => PlayedIs(clips, Len(clips)) /\ ~isTimelinePlaying
        /\ \A i \in 1..Len(played) : played[1].delivered => played[i].delivered
        /\ ev.op = "playTimeline" =>
              /\ Len(played) = 1
              /\ calls = IfReady(<< PauseCmd, LoadCmd(clips[1]), PlayCmd >>)
        /\ (ev.op = "timeout" /\ timers # {}) =>
              /\ Len(played) > 1
              /\ calls = IfReady(<< LoadCmd(clips[Len(played)]), PlayCmd >>)
        /\ (ev.op = "timeout" /\ timers = {}) => calls = <<>>

\* A run over two clips has completed, with the player ready from the start.
C1_Witness ==
    /\ edits = 0
    /\ Len(clips) >= 2
    /\ ev.op = "timeout"
    /\ timers = {}
    /\ timelineTimeoutRef # 0
    /\ Len(played) = Len(clips)
    /\ played[1].delivered

\* C2: at most one playback timer is pending, and it is the one the timer
\* reference names.
C2_AtMostOneTimer ==
    /\ Cardinality(timers) <= 1
    /\ \A t \in timers : t.handle = timelineTimeoutRef

\* A second timer is pending after a first one, and the collection was edited.
C2_Witness ==
    /\ Cardinality(timers) = 1
    /\ nextHandle > 2
    /\ edits > 0

\* C3: isTimelinePlaying is true whenever a playback timer is pending.
C3_PlayingWhileTimerPending == timers # {} => isTimelinePlaying

\* C4: Stop cancels the pending timer, pauses the player and leaves the
\* scheduler idle; from then on, until Play Timeline is invoked, no step arms
\* a timer or sends the player a load of the scheduler.
C4_StopCancels ==
    [][ /\ ev'.op = "stopTimelinePlayback" =>
              /\ timers' = {}
              /\ timelineTimeoutRef' = 0
              /\ ~isTimelinePlaying'
              /\ calls' = IF playerRef # 0 THEN << PauseCmd >> ELSE <<>>
              /\ played' = played
        /\ (timelineTimeoutRef = 0 /\ timers = {} /\ ev'.op # "playTimeline") =>
              /\ timers' = {}
              /\ timelineTimeoutRef' = 0
              /\ played' = played
              /\ NoSchedulerLoad(calls')
      ]_vars

\* Stop was invoked while a timer was pending, with the player ready.
C4_Witness ==
    /\ ev.op = "stopTimelinePlayback"
    /\ ev.hadTimer
    /\ playerRef # 0
    /\ played # <<>>

C6_CycleReadsCurrentClip ==
    \A t \in timers :
        ( /\ ev.op = "timeout"
          /\ t.index + 1 <= Len(clips)
          /\ clips[t.index + 1].id = t.snap[t.index + 1].id ) =>
            /\ played[Len(played)].startSeconds = clips[t.index + 1].start
            /\ t.delay = (clips[t.index + 1].end - clips[t.index + 1].start) * 1000

\* C7: the clips of the collection have pairwise distinct ids.
C7_DistinctIds ==
    \A i, j \in 1..Len(clips) : i # j => clips[i].id # clips[j].id

\* A string of spaces only, the empty string included.
Blank(s) == \A i \in 1..Len(s) : s[i] = " "

\* The request numbers of the suspended confirmClip calls.
Reqs == 1..MaxClips
Suspended(r) == \E p \in pending : p.req = r

\* Every lookup settles: a fetch resolves or rejects.
LookupsSettle ==
    \A q \in Reqs :
        WF_vars(\E p \in pending, r \in Responses : p.req = q /\ ResolveLookup(p, r))

\* The handlers a confirmation involves: the identifier field, Edit Clip, Add
\* to Timeline, the settling of a lookup, and Delete, which changes the
\* collection a suspended call will append to.
NextConfirm ==
    \/ \E v \in VideoInputs : SetVideoId(v)
    \/ StartDraft
    \/ ConfirmClip
    \/ \E p \in pending, r \in Responses : ResolveLookup(p, r)
    \/ \E id \in Ids : DeleteClip(id)

SpecConfirm == Init /\ [][NextConfirm]_vars /\ LookupsSettle

\* The title the claim gives a confirmed clip for lookup answer r.
ClaimedTitle(r) ==
    IF r.ok /\ r.hasTitle /\ r.title # "" THEN r.title ELSE "Untitled Video"

\* C8: "Add to Timeline" on a draft with a non-blank videoId suspends exactly
\* one call holding that draft and changes neither collection nor draft; the
\* call ends (every suspended call does, eventually), and when it ends exactly
\* one clip is appended to the end of the collection, the draft it held with
\* the returned title, or "Untitled Video" when the lookup fails or returns no
\* title, the clips before it are unchanged and the draft is cleared; no other
\* step lengthens the collection.
C8_ConfirmAppendsOne ==
    /\ [][ /\ (ev'.op = "confirmClip" /\ \E d \in draftClip : ~Blank(d.videoId)) =>
                 /\ \E p \in pending' :
                      /\ p \notin pending
                      /\ pending' = pending \cup {p}
                      /\ draftClip = {p.draft}
                 /\ clips' = clips
                 /\ draftClip' = draftClip
           /\ ev'.op = "resolve" =>
                 /\ \E p \in pending :
                      /\ pending' = pending \ {p}
                      /\ Len(clips') = Len(clips) + 1
                      /\ SubSeq(clips', 1, Len(clips)) = clips
                      /\ clips'[Len(clips')] =
                           [ id |-> p.draft.id, videoId |-> p.draft.videoId,
                             title |-> ClaimedTitle(ev'.response),
                             start |-> p.draft.start,
                             audioStart |-> p.draft.audioStart,
                             audioEnd |-> p.draft.audioEnd, end |-> p.draft.end ]
                 /\ draftClip' = {}
           /\ Len(clips') > Len(clips) => ev'.op = "resolve"
           /\ pending' # pending => ev'.op \in {"confirmClip", "resolve"}
         ]_vars
    /\ \A q \in Reqs : Suspended(q) ~> ~Suspended(q)

\* A confirmed draft was appended with the returned title behind a clip whose
\* lookup had failed.
C8_Witness ==
    /\ ev.op = "resolve"
    /\ ev.response.ok
    /\ Len(clips) = 2
    /\ clips[1].title = "Untitled Video"
    /\ clips[2].title = "Demo"
    /\ draftClip = {}

\* The handlers of the draft, from the first mount on: the script loads,
\* identifiers are typed, the instances constructed for them become ready,
\* Edit Clip and Add to Timeline are pressed (the lookups stay in flight).
NextDraft ==
    \/ \E v \in VideoInputs : SetVideoId(v)
    \/ ApiReady
    \/ \E p \in unready : OnReady(p)
    \/ StartDraft
    \/ ConfirmClip

SpecDraft == Init /\ [][NextDraft]_vars

\* C9: with no draft, Edit Clip on an empty or blank identifier creates no
\* draft and sends the player nothing, and Add to Timeline suspends no call and
\* leaves the collection and the absent draft as they are.
C9_DeclinesWithoutInput ==
    [][ /\ (ev'.op = "startDraft" /\ draftClip = {} /\ Blank(videoId)) =>
              /\ draftClip' = {}
              /\ calls' = <<>>
              /\ clips' = clips
        /\ (ev'.op = "confirmClip" /\ draftClip = {}) =>
              /\ pending' = pending
              /\ clips' = clips
              /\ draftClip' = {}
              /\ calls' = <<>>
      ]_vars

\* Edit Clip was invoked on a blank, non-empty identifier with no draft and
\* the player ready.
C9_Witness ==
    /\ ev.op = "startDraft"
    /\ ~ev.hadDraft
    /\ videoId # <<>>
    /\ Blank(videoId)
    /\ playerRef # 0
    /\ draftClip = {}

\* The number of positions of cs that hold c.
Count(cs, c) == Cardinality({ i \in 1..Len(cs) : cs[i] = c })

\* C10: a drop leaves the collection a permutation of itself, and a drop on
\* the dragged item leaves it as it is.
C10_DropPermutes ==
    [][ ev'.op = "handleDragEnd" =>
          /\ Len(clips') = Len(clips)
          /\ \A i \in 1..Len(clips) : Count(clips', clips[i]) = Count(clips, clips[i])
          /\ ev'.active = ev'.over => clips' = clips
      ]_vars

\* A clip was dropped on another one and now follows it.
C10_Witness ==
    /\ ev.op = "handleDragEnd"
    /\ ev.active # ev.over
    /\ Len(clips) >= 2
    /\ clips[1].id = ev.over
    /\ clips[Len(clips)].id = ev.active

\* C18: when a suspended confirmation ends while the draft at hand has
\* another id than the draft it confirmed (a draft made by a later Edit
\* Clip), that draft is still present afterwards, with its values.
C18_ClearsOnlyOwnDraft ==
    [][ ev'.op = "resolve" =>
          \A p \in pending \ pending' :
             (draftClip # {} /\ \A d \in draftClip : d.id # p.draft.id) =>
                draftClip' = draftClip
      ]_vars

\* ------------------------------------------------------------------ the player bridge
\* The bridge starts from a collection of the store on a page whose script
\* has not loaded yet, with nothing typed.
InitBridge ==
    /\ clips \in StoreClips
    /\ videoId = <<>>
    /\ draftClip = {}
    /\ playerRef = 0
    /\ timelineTimeoutRef = 0
    /\ isTimelinePlaying = FALSE
    /\ timers = {}
    /\ nextHandle = 1
    /\ pending = {}
    /\ mounted = TRUE
    /\ scripts = 1
    /\ windowYT = FALSE
    /\ YT = FALSE
    /\ constructed = <<>>
    /\ unready = {}
    /\ videoDuration = 60
    /\ timelineZoom = 100
    /\ edits = 0
    /\ calls = <<>>
    /\ played = <<>>
    /\ ev = [op |-> "mount"]

\* The handlers that reach the player: the script loads, identifiers are
\* typed and the instances constructed for them become ready in any order,
\* a draft is made, clips are activated, the timeline is played and stopped.
NextBridge ==
    \/ \E v \in VideoInputs : SetVideoId(v)
    \/ ApiReady
    \/ \E p \in unready : OnReady(p)
    \/ StartDraft
    \/ \E i \in 1..Len(clips) : LoadClipVideo(i)
    \/ PlayTimeline
    \/ StopTimelinePlayback
    \/ \E t \in timers : TimerFire(t)

SpecBridge == InitBridge /\ [][NextBridge]_vars

\* The instances that have emitted their readiness event.
Ready == (1..Len(constructed)) \ unready

\* C17: the handle captured is that of an instance that has emitted its
\* readiness event, and every command goes to the handle captured when the
\* handler runs; while no handle is captured no handler sends a command, and
\* Edit Clip still makes the draft, Activate still sets the active identifier,
\* Play Timeline still arms the timer of the first clip and Stop still
\* returns the scheduler to idle.
C17_NoCommandBeforeReady ==
    /\ [](playerRef # 0 => playerRef \in Ready)
    /\ [][ /\ calls' # <<>> => playerRef \in Ready
           /\ playerRef = 0 =>
                 /\ ev'.op # "onReady" => calls' = <<>>
                 /\ (ev'.op = "startDraft" /\ ~Blank(videoId)) =>
                       \E d \in draftClip' :
                          /\ draftClip' = {d}
                          /\ ~Blank(d.videoId)
                          /\ << d.start, d.audioStart, d.audioEnd, d.end >>
                                = << 0, 2, 8, 10 >>
                 /\ ev'.op = "loadClipVideo" =>
                       \E i \in 1..Len(clips) : videoId' = clips[i].videoId
                 /\ (ev'.op = "playTimeline" /\ clips # <<>>) =>
                       \E t \in timers' :
                          /\ timers' = {t}
                          /\ t.index = 0
                          /\ timelineTimeoutRef' = t.handle
                 /\ ev'.op = "stopTimelinePlayback" =>
                       /\ timers' = {}
                       /\ timelineTimeoutRef' = 0
                       /\ ~isTimelinePlaying'
         ]_vars

\* With an instance constructed and not yet ready, and no handle captured,
\* Edit Clip has made a draft and Play Timeline has armed a timer.
C17_Witness ==
    /\ playerRef = 0
    /\ unready # {}
    /\ draftClip # {}
    /\ ev.op = "playTimeline"
    /\ timers # {}

\* C20: once every instance constructed is ready, and the latest was
\* constructed for the current identifier, the handle captured is that of
\* the latest instance and videoDuration is the duration of its video, when
\* truthy.
C20_HandleOfCurrentVideo ==
    ( /\ constructed # <<>>
      /\ unready = {}
      /\ constructed[Len(constructed)] = videoId ) =>
        /\ playerRef = Len(constructed)
        /\ getDuration(videoId) # 0 => videoDuration = getDuration(videoId)

\* ------------------------------------------------------------------ marker edits
\* The records are edited on the page of the first mount, once an
\* identifier has been typed.
InitEdit ==
    /\ clips = <<>>
    /\ videoId = <<" ", "a", " ">>
    /\ draftClip = {}
    /\ playerRef = 0
    /\ timelineTimeoutRef = 0
    /\ isTimelinePlaying = FALSE
    /\ timers = {}
    /\ nextHandle = 1
    /\ pending = {}
    /\ mounted = TRUE
    /\ scripts = 1
    /\ windowYT = FALSE
    /\ YT = FALSE
    /\ constructed = <<>>
    /\ unready = {}
    /\ videoDuration = 60
    /\ timelineZoom = 100
    /\ edits = 0
    /\ calls = <<>>
    /\ played = <<>>
    /\ ev = [op |-> "setVideoId"]

\* The handlers that edit the time fields of the records: a draft is made
\* and confirmed, its lookup settles, markers of the draft and of the clips
\* are dragged.
NextEdit ==
    \/ StartDraft
    \/ \E f \in Fields, v \in TimeVals : UpdateDraftClip(f, v)
    \/ ConfirmClip
    \/ \E p \in pending, r \in Responses : ResolveLookup(p, r)
    \/ \E id \in Ids, f \in Fields, v \in TimeVals : UpdateClip(id, f, v)

SpecEdit == InitEdit /\ [][NextEdit]_vars

\* No clip of cs has the id.
Absent(cs, id) == \A i \in 1..Len(cs) : cs[i].id # id

\* C11: a marker update or a deletion naming an id that no clip of the
\* collection has leaves the collection as it is (same clips, same field
\* values, same order) and changes neither the draft nor the lookups in
\* flight, and sends the player nothing.
C11_AbsentIdNoOp ==
    [][ (ev'.op \in {"updateClip", "deleteClip"} /\ Absent(clips, ev'.clipId)) =>
            /\ clips' = clips
            /\ draftClip' = draftClip
            /\ pending' = pending
            /\ videoId' = videoId
            /\ calls' = <<>>
      ]_vars

\* Delete was invoked with an id no clip of a non-empty collection has.
C11_Witness ==
    /\ ev.op = "deleteClip"
    /\ clips # <<>>
    /\ Absent(clips, ev.clipId)

\* The fields of a draft and of a confirmed clip.
DraftFields == {"id", "videoId", "start", "audioStart", "audioEnd", "end"}
ClipFields == DraftFields \cup {"title"}

\* The positions at which the collection changes in the step.
Changed == { i \in 1..Len(clips) : clips'[i] # clips[i] }

\* C12: a marker update of a clip changes at most one clip, the one with the
\* id given, stores the value given in the field named and leaves the other
\* fields of that clip, every other clip and the order as they were; a marker
\* update of the draft stores the value given in the field named and leaves
\* the draft's other fields and the collection as they were.
C12_MarkerUpdateFrame ==
    [][ /\ ev'.op = "updateClip" =>
              /\ Len(clips') = Len(clips)
              /\ Cardinality(Changed) <= 1
              /\ \A i \in 1..Len(clips) :
                    /\ clips[i].id = ev'.clipId => clips'[i][ev'.field] = ev'.value
                    /\ clips[i].id # ev'.clipId => clips'[i] = clips[i]
                    /\ \A g \in ClipFields \ {ev'.field} : clips'[i][g] = clips[i][g]
              /\ draftClip' = draftClip
        /\ ev'.op = "updateDraftClip" =>
              /\ \E d \in draftClip, e \in draftClip' :
                    /\ draftClip' = {e}
                    /\ e[ev'.field] = ev'.value
                    /\ \A g \in DraftFields \ {ev'.field} : e[g] = d[g]
              /\ clips' = clips
      ]_vars

\* ------------------------------------------------------------------ edits of a draft in confirmation
\* The handlers between Edit Clip and the end of the confirmation: the
\* draft is made, its markers are dragged, Add to Timeline is pressed and the
\* lookup settles, in any order.
NextCapture ==
    \/ StartDraft
    \/ \E f \in Fields, v \in TimeVals : UpdateDraftClip(f, v)
    \/ ConfirmClip
    \/ \E p \in pending, r \in Responses : ResolveLookup(p, r)

SpecCapture == InitEdit /\ [][NextCapture]_vars

\* The id, videoId and time fields of a draft or clip.
Frame(c) == [ g \in DraftFields |-> c[g] ]

\* C19: Add to Timeline suspends a call that holds the draft as it is at
\* that moment; no step, a marker drag of the draft included, changes what a
\* suspended call holds; and the clip appended when the call ends has the id,
\* videoId and time fields the call holds, whatever the draft is by then.
C19_AppendsDraftAsConfirmed ==
    [][ /\ ev'.op = "confirmClip" =>
              \A p \in pending' \ pending : draftClip = {p.draft}
        /\ \A p \in pending :
              \/ p \in pending'
              \/ /\ ev'.op = "resolve"
                 /\ Len(clips') = Len(clips) + 1
                 /\ Frame(clips'[Len(clips')]) = Frame(p.draft)
        /\ ev'.op = "updateDraftClip" => (pending' = pending /\ clips' = clips)
      ]_vars

\* A confirmation ended while the draft it had captured was at hand with a
\* marker dragged since: the clip appended has the marker where it was.
C19_Witness ==
    /\ ev.op = "resolve"
    /\ ev.edited
    /\ edits = 1
    /\ Len(clips) = 1
    /\ pending = {}
    /\ << clips[1].start, clips[1].audioStart, clips[1].audioEnd, clips[1].end >>
          = << 0, 2, 8, 10 >>

\* ------------------------------------------------------------------ zoom and view window
\* The handlers the marker track of a draft depends on, once an identifier
\* has been typed: the script loads, the instance constructed becomes ready
\* and reports its duration, a draft is made, its markers are dragged, the
\* zoom buttons are pressed.
NextView ==
    \/ ApiReady
    \/ \E p \in unready : OnReady(p)
    \/ StartDraft
    \/ \E f \in Fields, v \in TimeVals : UpdateDraftClip(f, v)
    \/ ZoomOut
    \/ ZoomIn

SpecView == InitEdit /\ [][NextView]_vars

\* The start and end of the tracks the view window is computed for: those of
\* the draft and of the clips, and every pair of times a marker may be left
\* at, the ends of the widest window (-D and D) included.
TrackTimes ==
    { [start |-> d.start, end |-> d.end] : d \in draftClip }
        \cup { [start |-> clips[i].start, end |-> clips[i].end] : i \in 1..Len(clips) }
        \cup { [start |-> s, end |-> e] :
                   s, e \in {0 - videoDuration, 0, 9, 10, videoDuration} }

\* viewRange is exactly D / z.
ViewRangeExact ==
    viewRange(videoDuration, timelineZoom) * timelineZoom = videoDuration * Scale * 100

\* C13 as stated: at every zoom and duration, viewRange = D / z and the
\* window of every track starts at or after 0 and ends at or before D.
C13_WindowInsideVideo ==
    /\ videoDuration > 0
    /\ ViewRangeExact
    /\ \A c \in TrackTimes :
          /\ 0 <= rangeStart(videoDuration, timelineZoom, c)
          /\ rangeStart(videoDuration, timelineZoom, c)
                + viewRange(videoDuration, timelineZoom) <= videoDuration * Scale

\* C13, amended: at every zoom and duration viewRange = D / z and the window
\* of every track starts at or before D - viewRange, so that it ends at or
\* before D; at a zoom of 1 or more it starts at or after 0, and at zoom 0.5,
\* where viewRange is 2 D, it is the window from -D to D.
C13_WindowOfZoom ==
    /\ videoDuration > 0
    /\ ViewRangeExact
    /\ \A c \in TrackTimes :
          /\ rangeStart(videoDuration, timelineZoom, c)
                <= videoDuration * Scale - viewRange(videoDuration, timelineZoom)
          /\ timelineZoom >= 100 =>
                0 <= rangeStart(videoDuration, timelineZoom, c)
          /\ timelineZoom < 100 =>
                /\ timelineZoom = 50
                /\ viewRange(videoDuration, timelineZoom) = 2 * videoDuration * Scale
                /\ rangeStart(videoDuration, timelineZoom, c) = 0 - videoDuration * Scale

\* The track of a draft with a dragged marker is zoomed in to 5, on a video
\* whose duration the player reported.
C13_Witness ==
    /\ timelineZoom = 500
    /\ videoDuration # 60
    /\ \E d \in draftClip : d.start = 9

\* The values of the zoom: the multiples of 0.5 from 0.5 to 5.
ZoomSteps == { 50 * k : k \in 1..10 }

\* C14: the zoom is always a multiple of 0.5 from 0.5 to 5; "-" lowers it by
\* 0.5 and leaves it at 0.5, "+" raises it by 0.5 and leaves it at 5, and no
\* other handler changes it.
C14_ZoomOnSteps ==
    /\ [](timelineZoom \in ZoomSteps)
    /\ [][ /\ ev'.op = "zoomOut" =>
                 timelineZoom' = IF timelineZoom = 50 THEN 50 ELSE timelineZoom - 50
           /\ ev'.op = "zoomIn" =>
                 timelineZoom' = IF timelineZoom = 500 THEN 500 ELSE timelineZoom + 50
           /\ ev'.op \notin {"zoomOut", "zoomIn"} => timelineZoom' = timelineZoom
         ]_vars

\* "+" was pressed at zoom 5, after "-" had been pressed at zoom 0.5.
C14_Witness ==
    /\ ev.op = "zoomIn"
    /\ ev.from = 500
    /\ timelineZoom = 500

\* ------------------------------------------------------------------ the page session
\* The page over mounts and unmounts of the component: the script loads at
\* some time after its injection, identifiers are typed, a draft is made,
\* the instances constructed become ready.
NextPage ==
    \/ Unmount
    \/ Mount
    \/ ApiReady
    \/ \E v \in VideoInputs : SetVideoId(v)
    \/ \E p \in unready : OnReady(p)
    \/ StartDraft

SpecPage == Init /\ [][NextPage]_vars

\* C15: the page holds at most one bootstrap script tag, whatever the
\* sequence of mounts, unmounts and remounts.
C15_ScriptInjectedOnce == scripts <= 1

\* ------------------------------------------------------------------ teardown
\* The scheduler up to the unmount of the component: the player becomes
\* ready, clips are activated and deleted, the timeline is played and
\* stopped, timers fire, the component is unmounted at any moment.
NextTeardown ==
    \/ \E p \in unready : OnReady(p)
    \/ \E id \in Ids : DeleteClip(id)
    \/ \E i \in 1..Len(clips) : LoadClipVideo(i)
    \/ PlayTimeline
    \/ StopTimelinePlayback
    \/ \E t \in timers : TimerFire(t)
    \/ Unmount

SpecTeardown == InitPlay /\ [][NextTeardown]_vars

\* C16: the unmount leaves no playback timer pending and sends the player
\* nothing; once the component is unmounted no timer is pending, and no step
\* follows: no timer callback runs, the player receives no command of the
\* scheduler, no timer is armed and no state is updated.
C16_NoTimerAfterUnmount ==
    /\ [](~mounted => timers = {})
    /\ [][ /\ ev'.op = "unmount" => (timers' = {} /\ calls' = <<>>)
           /\ ~mounted =>
                 /\ ev'.op # "timeout"
                 /\ calls' = <<>>
                 /\ timers' = timers
                 /\ played' = played
                 /\ isTimelinePlaying' = isTimelinePlaying
                 /\ timelineTimeoutRef' = timelineTimeoutRef
         ]_vars

\* The component was unmounted while the timer of the second clip of a run
\* was pending, with the player ready.
C16_Witness ==
    /\ ~mounted
    /\ ev.op = "unmount"
    /\ ev.hadTimer
    /\ Len(played) = 2
    /\ playerRef # 0

====
